---- MODULE Spec2Model ----
(***************************************************************************)
(* Model of the ledger engine of bank_financial_report.py: the account     *)
(* balances of FinancialData, the transaction log, the transaction         *)
(* counter of BankFinancialReport, and the menu handlers that change them  *)
(* (input_transaction / process_transaction, edit_transaction,             *)
(* delete_transaction, set_initial_balance), and the figures that          *)
(* generate_excel_report writes to the workbook.                           *)
(*                                                                         *)
(* Text typed at a prompt is a sequence of one-character strings, so that  *)
(* the handlers' parsing (separator stripping, float(), int()) is modelled *)
(* by what it does.  Amounts are the exact integers float() yields for     *)
(* digit strings; non-finite and fractional floats are outside the input   *)
(* alphabet of the model.                                                  *)
(***************************************************************************)
EXTENDS Integers, Sequences, FiniteSets, TLC

VARIABLES
    data,                 \* FinancialData: the thirteen account balances
    transactions,         \* FinancialData.transactions, in list order
    transaction_counter,  \* BankFinancialReport.transaction_counter
    last,                 \* history: the handler that ran last and its outcome
    pre,                  \* history: the ledger as it was before that handler
    issued,               \* history: identifiers handed out, in order
    ops,                  \* history: kinds of handlers that ran to completion
    steps,                \* history: number of handler runs so far
    demo,                 \* args.demo: the program was started with --demo
    workbook              \* the figures of the workbook saved last

vars ==
    <<data, transactions, transaction_counter, last, pre, issued, ops, steps, demo,
      workbook>>

(***************************************************************************)
(* Bounds of the model.                                                    *)
(***************************************************************************)
MaxSteps == 2

(***************************************************************************)
(* Inputs typed at the prompts.                                            *)
(***************************************************************************)
Choices == {"0", "1", "2", "3", "4", "5", "6", "7", "8", "9", "10", "11"}

DateInputs == {"2024-02-01"}

DescriptionInputs == {"", "setoran"}

NewDescriptionInputs == {"", "koreksi"}

AmountInputs ==
    { <<>>, <<"5">>, <<"1", "0", "0">>, <<"0">>, <<"-", "5">>, <<"x">> }

NewAmountInputs == { <<>>, <<"1", ".", "0", "0", "0">>, <<"0">>, <<"x">> }

ReferenceInputs == {""}

NewReferenceInputs == {"", "REF-2"}

NotesInputs == {""}

IdInputs == { <<"1">>, <<"2">>, <<"x">> }

ConfirmInputs == {"y", "n"}

BalanceInputs == { <<>>, <<"7">>, <<"x">> }

Today == "today"

(***************************************************************************)
(* Parsing: str.replace('.', '').replace(',', ''), float(), int().         *)
(***************************************************************************)
Digits == {"0", "1", "2", "3", "4", "5", "6", "7", "8", "9"}

DigitVal(c) ==
    CASE c = "0" -> 0 [] c = "1" -> 1 [] c = "2" -> 2 [] c = "3" -> 3
      [] c = "4" -> 4 [] c = "5" -> 5 [] c = "6" -> 6 [] c = "7" -> 7
      [] c = "8" -> 8 [] c = "9" -> 9

IsSeparator(c) == c \in {".", ","}

StripSeparators(s) == SelectSeq(s, LAMBDA c : ~IsSeparator(c))

Unsigned(s) == IF s # <<>> /\ s[1] = "-" THEN Tail(s) ELSE s

IsNumeral(s) ==
    /\ Unsigned(s) # <<>>
    /\ \A i \in 1..Len(Unsigned(s)) : Unsigned(s)[i] \in Digits

RECURSIVE DigitsValue(_)
DigitsValue(s) ==
    IF s = <<>> THEN 0
    ELSE DigitsValue(SubSeq(s, 1, Len(s) - 1)) * 10 + DigitVal(s[Len(s)])

NumeralValue(s) ==
    IF s[1] = "-" THEN 0 - DigitsValue(Tail(s)) ELSE DigitsValue(s)

\* float(text.replace('.', '').replace(',', '')): ok = FALSE is ValueError
ParseAmount(s) ==
    LET t == StripSeparators(s) IN
    IF IsNumeral(t) THEN [ok |-> TRUE, value |-> NumeralValue(t)]
    ELSE [ok |-> FALSE, value |-> 0]

\* int(text): ok = FALSE is ValueError
ParseId(s) ==
    IF IsNumeral(s) THEN [ok |-> TRUE, value |-> NumeralValue(s)]
    ELSE [ok |-> FALSE, value |-> 0]

(***************************************************************************)
(* FinancialData and Transaction.                                          *)
(***************************************************************************)
Accounts ==
    { "kas", "bank_account", "piutang", "investasi", "aset_lain",
      "hutang", "pinjaman", "modal", "laba_ditahan",
      "pendapatan_bunga", "pendapatan_lain", "beban_admin", "beban_lain" }

FinancialData == [a \in Accounts |-> 0]

Transaction(id, date, description, trans_type, debit, credit, amount, reference, notes) ==
    [ id |-> id, date |-> date, description |-> description,
      transaction_type |-> trans_type, account_debit |-> debit,
      account_credit |-> credit, amount |-> amount,
      reference |-> reference, notes |-> notes ]

(***************************************************************************)
(* Statement totals.                                                       *)
(***************************************************************************)
total_aset_without_investasi(d) ==
    d.kas + d.bank_account + d.piutang + d.aset_lain

_get_total_aset(d) ==
    d.kas + d.bank_account + d.piutang + d.investasi + d.aset_lain

_get_total_kewajiban(d) == d.hutang + d.pinjaman

_get_total_pendapatan(d) == d.pendapatan_bunga + d.pendapatan_lain

total_beban_admin_only(d) == d.beban_admin

_get_total_beban(d) == d.beban_admin + d.beban_lain

_get_laba_rugi(d) == _get_total_pendapatan(d) - _get_total_beban(d)

total_ekuitas_without_laba_rugi(d) == d.modal + d.laba_ditahan

_get_total_ekuitas(d) == d.modal + d.laba_ditahan + _get_laba_rugi(d)

(***************************************************************************)
(* process_transaction.                                                    *)
(***************************************************************************)
transaction_map ==
    [ c \in {"1", "2", "3", "4", "5", "6", "7", "8", "9", "10"} |->
        CASE c = "1"  -> <<"Setoran Tunai", "Kas", "Modal">>
          [] c = "2"  -> <<"Penarikan Tunai", "Modal", "Kas">>
          [] c = "3"  -> <<"Transfer Masuk", "Bank", "Pendapatan Operasional">>
          [] c = "4"  -> <<"Transfer Keluar", "Beban Operasional", "Bank">>
          [] c = "5"  -> <<"Pembayaran Tagihan", "Hutang", "Bank">>
          [] c = "6"  -> <<"Pembelian/Investasi", "Aset/Investasi", "Bank">>
          [] c = "7"  -> <<"Bunga Masuk", "Bank", "Pendapatan Bunga">>
          [] c = "8"  -> <<"Biaya Administrasi", "Beban Administrasi", "Bank">>
          [] c = "9"  -> <<"Pinjaman Masuk", "Bank", "Pinjaman">>
          [] c = "10" -> <<"Angsuran Keluar", "Pinjaman", "Bank">> ]

\* the chain with the bank side of "Transfer Keluar" added instead of subtracted
UpdateSaldoTransferSlip(d, choice, amount) ==
    CASE choice = "1" ->
           [d EXCEPT !.kas = @ + amount, !.modal = @ + amount]
      [] choice = "2" ->
           [d EXCEPT !.kas = @ - amount, !.modal = @ - amount]
      [] choice = "3" ->
           [d EXCEPT !.bank_account = @ + amount, !.pendapatan_lain = @ + amount]
      [] choice = "4" ->
           [d EXCEPT !.bank_account = @ + amount, !.beban_lain = @ + amount]
      [] choice = "5" ->
           [d EXCEPT !.hutang = @ - amount, !.bank_account = @ - amount]
      [] choice = "6" ->
           [d EXCEPT !.investasi = @ + amount, !.bank_account = @ - amount]
      [] choice = "7" ->
           [d EXCEPT !.bank_account = @ + amount, !.pendapatan_bunga = @ + amount]
      [] choice = "8" ->
           [d EXCEPT !.beban_admin = @ + amount, !.bank_account = @ - amount]
      [] choice = "9" ->
           [d EXCEPT !.bank_account = @ + amount, !.pinjaman = @ + amount]
      [] choice = "10" ->
           [d EXCEPT !.pinjaman = @ - amount, !.bank_account = @ - amount]
      [] OTHER -> d

\* the if/elif chain that updates the balances
UpdateSaldo(d, choice, amount) ==
    CASE choice = "1" ->
           [d EXCEPT !.kas = @ + amount, !.modal = @ + amount]
      [] choice = "2" ->
           [d EXCEPT !.kas = @ - amount, !.modal = @ - amount]
      [] choice = "3" ->
           [d EXCEPT !.bank_account = @ + amount, !.pendapatan_lain = @ + amount]
      [] choice = "4" ->
           [d EXCEPT !.bank_account = @ - amount, !.beban_lain = @ + amount]
      [] choice = "5" ->
           [d EXCEPT !.hutang = @ - amount, !.bank_account = @ - amount]
      [] choice = "6" ->
           [d EXCEPT !.investasi = @ + amount, !.bank_account = @ - amount]
      [] choice = "7" ->
           [d EXCEPT !.bank_account = @ + amount, !.pendapatan_bunga = @ + amount]
      [] choice = "8" ->
           [d EXCEPT !.beban_admin = @ + amount, !.bank_account = @ - amount]
      [] choice = "9" ->
           [d EXCEPT !.bank_account = @ + amount, !.pinjaman = @ + amount]
      [] choice = "10" ->
           [d EXCEPT !.pinjaman = @ - amount, !.bank_account = @ - amount]
      [] OTHER -> d

NextTransactionId(counter) == counter + 1

\* The ledger after process_transaction(choice, ...).  The counter is
\* incremented before the table lookup; a selector missing from the table
\* raises KeyError there, after the increment and before any other change.
process_transaction(led, choice, date, description, amount, reference, notes) ==
    LET trans_id == NextTransactionId(led.transaction_counter) IN
    IF choice \notin DOMAIN transaction_map
    THEN [ data |-> led.data, transactions |-> led.transactions,
           transaction_counter |-> trans_id, err |-> "KeyError", id |-> 0 ]
    ELSE LET entry == transaction_map[choice] IN
         [ data |-> UpdateSaldo(led.data, choice, amount),
           transactions |->
               Append(led.transactions,
                      Transaction(trans_id, date, description, entry[1],
                                  entry[2], entry[3], amount, reference, notes)),
           transaction_counter |-> trans_id,
           err |-> "ok", id |-> trans_id ]

(***************************************************************************)
(* input_transaction: the form in front of process_transaction.           *)
(***************************************************************************)
ValidChoiceUpTo11(choice) ==
    choice \in {"1", "2", "3", "4", "5", "6", "7", "8", "9", "10", "11"}

ValidChoice(choice) ==
    choice \in {"1", "2", "3", "4", "5", "6", "7", "8", "9", "10"}

AmountAcceptedFromZero(amount) == ~(amount < 0)

AmountAccepted(amount) == ~(amount <= 0)

Rejected(led, err) ==
    [ data |-> led.data, transactions |-> led.transactions,
      transaction_counter |-> led.transaction_counter, err |-> err, id |-> 0 ]

input_transaction(led, choice, date_in, description, amount_str, reference, notes) ==
    LET date   == IF date_in = "" THEN Today ELSE date_in
        parsed == ParseAmount(amount_str)
    IN  IF choice = "0" THEN Rejected(led, "Cancelled")
        ELSE IF ~ValidChoice(choice) THEN Rejected(led, "UnknownCategory")
        ELSE IF description = "" THEN Rejected(led, "MissingDescription")
        ELSE IF ~parsed.ok THEN Rejected(led, "InvalidAmount")
        ELSE IF ~AmountAccepted(parsed.value) THEN Rejected(led, "InvalidAmount")
        ELSE process_transaction(led, choice, date, description, parsed.value,
                                 reference, notes)

Ledger == [ data |-> data, transactions |-> transactions,
            transaction_counter |-> transaction_counter ]

\* History of a handler run.  Only the answers the handler acted on are
\* recorded: known = the selector is one of the ten of the table; choice is
\* kept when the menu ended the handler or the transaction was processed.
NoInfo == [ choice |-> "", known |-> FALSE, description |-> "", text |-> "",
            amount |-> 0, new_desc |-> "", new_amount |-> FALSE, new_ref |-> "",
            balances |-> <<>> ]

Ran(op, res, info) ==
    /\ data' = res.data
    /\ transactions' = res.transactions
    /\ transaction_counter' = res.transaction_counter
    /\ last' = [op |-> op, err |-> res.err, id |-> res.id] @@ info
    /\ pre' = Ledger
    /\ ops' = ops \cup {op}
    /\ steps' = steps + 1
    /\ workbook' = IF "workbook" \in DOMAIN res THEN res.workbook ELSE workbook
    /\ UNCHANGED demo

AmountText(amount_str) ==
    IF ParseAmount(amount_str).ok THEN "number" ELSE "invalid"

ApplyInfo(choice, description, amount_str, res) ==
    LET known    == choice \in DOMAIN transaction_map
        asked    == known /\ description # ""
    IN  [ NoInfo EXCEPT
            !.choice = IF res.err \in {"MissingDescription", "InvalidAmount"}
                       THEN "" ELSE choice,
            !.known = known,
            !.description = IF known THEN description ELSE "",
            !.text = IF asked THEN AmountText(amount_str) ELSE "",
            !.amount = IF asked THEN ParseAmount(amount_str).value ELSE 0 ]

InputTransaction ==
    /\ steps < MaxSteps
    /\ \E choice \in Choices, date \in DateInputs,
          description \in DescriptionInputs, amount_str \in AmountInputs,
          reference \in ReferenceInputs, notes \in NotesInputs :
         LET res == input_transaction(Ledger, choice, date, description,
                                      amount_str, reference, notes)
         IN  /\ Ran("apply", res, ApplyInfo(choice, description, amount_str, res))
             /\ issued' = IF res.err = "ok" THEN Append(issued, res.id) ELSE issued

(***************************************************************************)
(* edit_transaction.                                                       *)
(***************************************************************************)
\* the lookup falling back to the newest transaction when none matches
FindTransactionOrLast(log, trans_id) ==
    IF \E i \in 1..Len(log) : log[i].id = trans_id
    THEN CHOOSE i \in 1..Len(log) :
            /\ log[i].id = trans_id
            /\ \A j \in 1..(i - 1) : log[j].id # trans_id
    ELSE Len(log)

\* the lookup taking the identifier for a position in the list
FindTransactionByPosition(log, trans_id) ==
    IF trans_id \in 1..Len(log) THEN trans_id ELSE 0

\* next((t for t in transactions if t.id == trans_id), None): 0 is None
FindTransaction(log, trans_id) ==
    IF \E i \in 1..Len(log) : log[i].id = trans_id
    THEN CHOOSE i \in 1..Len(log) :
            /\ log[i].id = trans_id
            /\ \A j \in 1..(i - 1) : log[j].id # trans_id
    ELSE 0

SetDescription(t, new_desc) ==
    IF new_desc # "" THEN [t EXCEPT !.description = new_desc] ELSE t

SetAmount(t, value) == [t EXCEPT !.amount = value]

SetReference(t, new_ref) ==
    IF new_ref # "" THEN [t EXCEPT !.reference = new_ref] ELSE t

\* The fields are assigned in the order they are asked for; float() raising
\* ValueError leaves what was assigned before it.
edit_transaction(led, id_str, new_desc, new_amount, new_ref) ==
    LET log    == led.transactions
        parsed == ParseId(id_str)
        i      == FindTransaction(log, parsed.value)
        amt    == ParseAmount(new_amount)
        t1     == SetDescription(log[i], new_desc)
        t2     == IF new_amount # <<>> THEN SetAmount(t1, amt.value) ELSE t1
        t3     == SetReference(t2, new_ref)
    IN  IF log = <<>> THEN Rejected(led, "NoTransactions")
        ELSE IF ~parsed.ok THEN Rejected(led, "InvalidInput")
        ELSE IF i = 0 THEN [Rejected(led, "NotFound") EXCEPT !.id = parsed.value]
        ELSE IF new_amount # <<>> /\ ~amt.ok
             THEN [ data |-> led.data,
                    transactions |-> [log EXCEPT ![i] = t1],
                    transaction_counter |-> led.transaction_counter,
                    err |-> "InvalidInput", id |-> parsed.value ]
        ELSE [ data |-> led.data,
               transactions |-> [log EXCEPT ![i] = t3],
               transaction_counter |-> led.transaction_counter,
               err |-> "ok", id |-> parsed.value ]

EditInfo(new_desc, new_amount, new_ref, res) ==
    LET found == res.id # 0 /\ res.err # "NotFound"
        typed == found /\ new_amount # <<>>
    IN  [ NoInfo EXCEPT
            !.new_desc = IF found THEN new_desc ELSE "",
            !.new_amount = typed,
            !.text = IF typed THEN AmountText(new_amount) ELSE "",
            !.amount = IF typed THEN ParseAmount(new_amount).value ELSE 0,
            !.new_ref = IF res.err = "ok" THEN new_ref ELSE "" ]

EditTransaction ==
    /\ steps < MaxSteps
    /\ \E id_str \in IdInputs, new_desc \in NewDescriptionInputs,
          new_amount \in NewAmountInputs, new_ref \in NewReferenceInputs :
         LET res == edit_transaction(Ledger, id_str, new_desc, new_amount, new_ref)
         IN  /\ Ran("edit", res, EditInfo(new_desc, new_amount, new_ref, res))
             /\ UNCHANGED issued

(***************************************************************************)
(* delete_transaction.                                                     *)
(***************************************************************************)
Lower(c) == IF c = "Y" THEN "y" ELSE IF c = "N" THEN "n" ELSE c

\* list.pop(): drops the newest element, whatever x is
ListRemoveNewest(log, x) == SubSeq(log, 1, Len(log) - 1)

\* list.remove(x): drops the first element equal to x
ListRemove(log, x) ==
    LET k == CHOOSE i \in 1..Len(log) :
                 /\ log[i] = x
                 /\ \A j \in 1..(i - 1) : log[j] # x
    IN  SubSeq(log, 1, k - 1) \o SubSeq(log, k + 1, Len(log))

\* the handler giving the identifier back to the counter
delete_transaction_recount(led, id_str, confirm) ==
    LET log    == led.transactions
        parsed == ParseId(id_str)
        i      == FindTransaction(log, parsed.value)
    IN  IF log = <<>> THEN Rejected(led, "NoTransactions")
        ELSE IF ~parsed.ok THEN Rejected(led, "InvalidInput")
        ELSE IF i = 0 THEN [Rejected(led, "NotFound") EXCEPT !.id = parsed.value]
        ELSE IF Lower(confirm) = "y"
             THEN [ data |-> led.data,
                    transactions |-> ListRemove(log, log[i]),
                    transaction_counter |-> led.transaction_counter - 1,
                    err |-> "ok", id |-> parsed.value ]
        ELSE [ data |-> led.data, transactions |-> log,
               transaction_counter |-> led.transaction_counter,
               err |-> "NotConfirmed", id |-> parsed.value ]

delete_transaction(led, id_str, confirm) ==
    LET log    == led.transactions
        parsed == ParseId(id_str)
        i      == FindTransaction(log, parsed.value)
    IN  IF log = <<>> THEN Rejected(led, "NoTransactions")
        ELSE IF ~parsed.ok THEN Rejected(led, "InvalidInput")
        ELSE IF i = 0 THEN [Rejected(led, "NotFound") EXCEPT !.id = parsed.value]
        ELSE IF Lower(confirm) = "y"
             THEN [ data |-> led.data,
                    transactions |-> ListRemove(log, log[i]),
                    transaction_counter |-> led.transaction_counter,
                    err |-> "ok", id |-> parsed.value ]
        ELSE [ data |-> led.data, transactions |-> log,
               transaction_counter |-> led.transaction_counter,
               err |-> "NotConfirmed", id |-> parsed.value ]

DeleteTransaction ==
    /\ steps < MaxSteps
    /\ \E id_str \in IdInputs, confirm \in ConfirmInputs :
         LET res == delete_transaction(Ledger, id_str, confirm)
         IN  /\ Ran("delete", res, NoInfo)
             /\ UNCHANGED issued

(***************************************************************************)
(* set_initial_balance.                                                    *)
(***************************************************************************)
\* the accounts asked for, in the order of the prompts
InitialBalanceFields == <<"kas", "bank_account", "piutang", "hutang", "modal">>

\* the prompts adding the answer to the balance
RECURSIVE ReadBalancesAdding(_, _, _)
ReadBalancesAdding(d, answers, k) ==
    IF k > Len(InitialBalanceFields) THEN [data |-> d, err |-> "ok"]
    ELSE IF answers[k] = <<>> THEN ReadBalancesAdding(d, answers, k + 1)
    ELSE IF ~ParseAmount(answers[k]).ok THEN [data |-> d, err |-> "InvalidInput"]
    ELSE ReadBalancesAdding(
             [d EXCEPT ![InitialBalanceFields[k]] = @ + ParseAmount(answers[k]).value],
             answers, k + 1)

\* The prompts from the k-th on: an empty answer keeps the balance, a number
\* overwrites it, anything else raises ValueError and ends the handler.
RECURSIVE ReadBalances(_, _, _)
ReadBalances(d, answers, k) ==
    IF k > Len(InitialBalanceFields) THEN [data |-> d, err |-> "ok"]
    ELSE IF answers[k] = <<>> THEN ReadBalances(d, answers, k + 1)
    ELSE IF ~ParseAmount(answers[k]).ok THEN [data |-> d, err |-> "InvalidInput"]
    ELSE ReadBalances(
             [d EXCEPT ![InitialBalanceFields[k]] = ParseAmount(answers[k]).value],
             answers, k + 1)

set_initial_balance(led, answers) ==
    LET r == ReadBalances(led.data, answers, 1) IN
    [ data |-> r.data, transactions |-> led.transactions,
      transaction_counter |-> led.transaction_counter, err |-> r.err, id |-> 0 ]

\* the answers the model types into the form
BalanceForms ==
    { f \in [1..Len(InitialBalanceFields) -> BalanceInputs] :
        /\ Cardinality({k \in DOMAIN f : ParseAmount(f[k]).ok}) <= 1
        /\ Cardinality({k \in DOMAIN f : f[k] # <<>> /\ ~ParseAmount(f[k]).ok}) <= 1 }

\* history: the answers that were assigned, those from the first invalid one
\* on left out
AssignedAnswers(answers) ==
    [ k \in DOMAIN answers |->
        IF \A j \in 1..k : answers[j] = <<>> \/ ParseAmount(answers[j]).ok
        THEN answers[k] ELSE <<>> ]

SetInitialBalance ==
    /\ steps < MaxSteps
    /\ \E answers \in BalanceForms :
         LET res == set_initial_balance(Ledger, answers)
         IN  /\ Ran("set", res, [NoInfo EXCEPT !.balances = AssignedAnswers(answers)])
             /\ UNCHANGED issued

(***************************************************************************)
(* generate_excel_report: the figures written to the sheets.               *)
(***************************************************************************)
Signed(x) == x

Abs(x) == IF x < 0 THEN 0 - x ELSE x

\* x < 0.01, for x in whole currency units (the product is only taken of
\* values below one unit)
WithinTolerance(x) == x < 1 /\ (x < 0 \/ x * 100 < 1)

\* the balance sheet's totals and its verification line
_create_neraca_sheet(d) ==
    LET total_aset    == _get_total_aset(d)
        total_passiva == _get_total_kewajiban(d) + _get_total_ekuitas(d)
        seimbang      == WithinTolerance(Abs(total_aset - total_passiva))
    IN  [ total_aset |-> total_aset,
          total_kewajiban |-> _get_total_kewajiban(d),
          laba_rugi_berjalan |-> _get_laba_rugi(d),
          total_ekuitas |-> _get_total_ekuitas(d),
          total_passiva |-> total_passiva,
          seimbang |-> seimbang,
          selisih |-> IF seimbang THEN 0 ELSE Abs(total_aset - total_passiva) ]

_create_laba_rugi_sheet(d) ==
    [ total_pendapatan |-> _get_total_pendapatan(d),
      total_beban |-> _get_total_beban(d),
      laba_rugi |-> _get_laba_rugi(d),
      laba |-> _get_laba_rugi(d) >= 0 ]

\* the sheet with the investments added to the investing flow
arus_kas_sheet_investasi_added(d) ==
    LET kas_operasi   == d.pendapatan_lain + (0 - d.beban_lain) + (0 - d.beban_admin)
        kas_investasi == d.pendapatan_bunga + d.investasi
        kas_pendanaan == d.modal + d.pinjaman + (0 - d.hutang)
    IN  [ kas_operasi |-> kas_operasi,
          kas_investasi |-> kas_investasi,
          kas_pendanaan |-> kas_pendanaan,
          total_arus_kas |-> kas_operasi + kas_investasi + kas_pendanaan ]

\* the sheet with the payables added to the financing flow
arus_kas_sheet_hutang_added(d) ==
    LET kas_operasi   == d.pendapatan_lain + (0 - d.beban_lain) + (0 - d.beban_admin)
        kas_investasi == d.pendapatan_bunga - d.investasi
        kas_pendanaan == d.modal + d.pinjaman + d.hutang
    IN  [ kas_operasi |-> kas_operasi,
          kas_investasi |-> kas_investasi,
          kas_pendanaan |-> kas_pendanaan,
          total_arus_kas |-> kas_operasi + kas_investasi + kas_pendanaan ]

_create_arus_kas_sheet(d) ==
    LET kas_operasi   == d.pendapatan_lain + (0 - d.beban_lain) + (0 - d.beban_admin)
        kas_investasi == d.pendapatan_bunga - d.investasi
        kas_pendanaan == d.modal + d.pinjaman + (0 - d.hutang)
    IN  [ kas_operasi |-> kas_operasi,
          kas_investasi |-> kas_investasi,
          kas_pendanaan |-> kas_pendanaan,
          total_arus_kas |-> kas_operasi + kas_investasi + kas_pendanaan ]

Sheets(d) ==
    [ saved |-> TRUE,
      neraca |-> _create_neraca_sheet(d),
      laba_rugi |-> _create_laba_rugi_sheet(d),
      arus_kas |-> _create_arus_kas_sheet(d) ]

NoWorkbook == [ saved |-> FALSE ]

\* the report closing the period: net income moved to retained earnings
generate_excel_report_closing(led) ==
    [ data |-> [led.data EXCEPT !.laba_ditahan = @ + _get_laba_rugi(led.data),
                                !.pendapatan_bunga = 0, !.pendapatan_lain = 0,
                                !.beban_admin = 0, !.beban_lain = 0],
      transactions |-> led.transactions,
      transaction_counter |-> led.transaction_counter, err |-> "ok", id |-> 0,
      workbook |-> Sheets(led.data) ]

generate_excel_report(led) ==
    [ data |-> led.data, transactions |-> led.transactions,
      transaction_counter |-> led.transaction_counter, err |-> "ok", id |-> 0,
      workbook |-> Sheets(led.data) ]

GenerateExcelReport ==
    /\ steps < MaxSteps
    /\ Ran("report", generate_excel_report(Ledger), NoInfo)
    /\ UNCHANGED issued

(***************************************************************************)
(* The program: __init__, the --demo data of main(), then the menu loop of *)
(* run_interactive.                                                        *)
(***************************************************************************)
DemoData ==
    [ FinancialData EXCEPT
        !.kas = 50000000, !.bank_account = 250000000, !.piutang = 75000000,
        !.investasi = 100000000, !.modal = 400000000, !.pinjaman = 75000000 ]

demo_trans ==
    << Transaction(1, "2024-01-05", "Setoran Modal Awal", "Setoran Tunai",
                   "Kas", "Modal", 100000000, "", ""),
       Transaction(2, "2024-01-10", "Bunga Deposito", "Bunga Masuk",
                   "Bank", "Pendapatan Bunga", 2500000, "", ""),
       Transaction(3, "2024-01-15", "Pembelian Obligasi", "Pembelian/Investasi",
                   "Investasi", "Bank", 50000000, "", ""),
       Transaction(4, "2024-01-20", "Biaya Admin Bulanan", "Biaya Administrasi",
                   "Beban Administrasi", "Bank", 150000, "", ""),
       Transaction(5, "2024-01-25", "Penerimaan Transfer", "Transfer Masuk",
                   "Bank", "Pendapatan", 15000000, "", "") >>

InitFresh ==
    /\ demo = FALSE
    /\ data = FinancialData
    /\ transactions = <<>>
    /\ transaction_counter = 0
    /\ issued = <<>>

InitDemo ==
    /\ demo = TRUE
    /\ data = DemoData
    /\ transactions = demo_trans
    /\ transaction_counter = Len(demo_trans)
    /\ issued = [k \in 1..Len(demo_trans) |-> k]

Init ==
    /\ InitFresh \/ InitDemo
    /\ workbook = NoWorkbook
    /\ last = [op |-> "init", err |-> "ok", id |-> 0] @@ NoInfo
    /\ pre = Ledger
    /\ ops = {}
    /\ steps = 0

Next ==
    \/ InputTransaction
    \/ EditTransaction
    \/ DeleteTransaction
    \/ SetInitialBalance
    \/ GenerateExcelReport

Spec == Init /\ [][Next]_vars

(***************************************************************************)
(* Properties.                                                             *)
(***************************************************************************)
Balanced(d) == _get_total_aset(d) = _get_total_kewajiban(d) + _get_total_ekuitas(d)

Applied == last.op = "apply" /\ last.err = "ok"

Edited == last.op = "edit" /\ last.err = "ok"

Deleted == last.op = "delete" /\ last.err = "ok"

\* C1: from a fresh ledger, after any sequence of apply requests and nothing
\* else, total assets equal total liabilities plus total equity, the equity
\* including the net income.
C1_BalancedAfterApplies ==
    (~demo /\ ops \subseteq {"apply"}) => Balanced(data)

C1_Witness ==
    /\ ~demo /\ ops = {"apply"} /\ Applied
    /\ Len(transactions) = 2
    /\ _get_laba_rugi(data) # 0
    /\ _get_total_aset(data) # 0

\* C2: a transaction applied and then deleted leaves every account balance
\* as it was before the transaction was applied.
C2_DeleteRestoresBalances ==
    [][ ( /\ Applied
          /\ last'.op = "delete" /\ last'.err = "ok" /\ last'.id = last.id )
        => data' = pre.data ]_vars

\* the text of an identifier, as typed at the prompt
IdText(n) == CHOOSE s \in IdInputs : ParseId(s).ok /\ ParseId(s).value = n

\* C3: apply(A) then edit(id, new_amount = X), with X > 0, gives the balances
\* that apply(A), delete(id), apply(same category, X) gives.
C3_EditIsDeleteThenApply ==
    [][ ( /\ Applied
          /\ last'.op = "edit" /\ last'.err = "ok" /\ last'.id = last.id
          /\ last'.new_amount /\ last'.amount > 0 )
        => data' =
             process_transaction(
                 delete_transaction(Ledger, IdText(last.id), "y"),
                 last.choice, transactions[Len(transactions)].date,
                 last.description, last'.amount, "", "").data ]_vars

\* C4: the identifiers handed out are strictly increasing in the order they
\* were handed out, so none is handed out twice, whatever was deleted,
\* edited or overwritten in between.
C4_IdentifiersIncrease ==
    \A i, j \in DOMAIN issued : i < j => issued[i] < issued[j]

C4_Witness ==
    /\ Applied
    /\ pre.transactions # <<>>
    /\ Len(pre.transactions) < Len(issued) - 1
    /\ \A i \in DOMAIN transactions : transactions[i].id # 1
    /\ last.id = transaction_counter

\* C5: from a fresh ledger whose balances were never overwritten, total
\* assets equal total liabilities plus total equity after every apply, edit
\* and delete request.
C5_BalancedWithoutOpeningBalance ==
    (~demo /\ "set" \notin ops) => Balanced(data)

C5_Witness ==
    /\ ~demo /\ "set" \notin ops
    /\ Edited /\ last.new_amount
    /\ transactions[1].amount # pre.transactions[1].amount
    /\ _get_total_aset(data) # 0

\* C6: an apply request with a known category and an empty description is
\* refused as MissingDescription, and one whose amount is zero or negative
\* as InvalidAmount; neither changes the counter, a balance or the log.
C6_InvalidApplyRejected ==
    (last.op = "apply" /\ last.known) =>
        /\ last.description = "" =>
              last.err = "MissingDescription" /\ Ledger = pre
        /\ (last.description # "" /\ last.text = "number" /\ last.amount <= 0) =>
              last.err = "InvalidAmount" /\ Ledger = pre

C6_Witness ==
    /\ last.op = "apply" /\ last.known
    /\ last.description # "" /\ last.text = "number" /\ last.amount < 0
    /\ last.err = "InvalidAmount"
    /\ transactions # <<>>

\* C7: an apply request whose selector is none of the ten categories (and is
\* not the menu's "0", back) is refused as UnknownCategory and leaves the
\* counter, every balance and the log as they were.
C7_UnknownCategoryRejected ==
    (last.op = "apply" /\ ~last.known /\ last.choice # "0") =>
        /\ last.err = "UnknownCategory"
        /\ Ledger = pre

C7_Witness ==
    /\ last.op = "apply" /\ last.choice = "11"
    /\ last.err = "UnknownCategory"
    /\ transactions # <<>>

\* the category table of the specification: the accounts a category adds the
\* amount to and those it subtracts it from
CategoryEffect(c) ==
    CASE c = "1"  -> [plus |-> {"kas", "modal"}, minus |-> {}]
      [] c = "2"  -> [plus |-> {}, minus |-> {"kas", "modal"}]
      [] c = "3"  -> [plus |-> {"bank_account", "pendapatan_lain"}, minus |-> {}]
      [] c = "4"  -> [plus |-> {"beban_lain"}, minus |-> {"bank_account"}]
      [] c = "5"  -> [plus |-> {}, minus |-> {"hutang", "bank_account"}]
      [] c = "6"  -> [plus |-> {"investasi"}, minus |-> {"bank_account"}]
      [] c = "7"  -> [plus |-> {"bank_account", "pendapatan_bunga"}, minus |-> {}]
      [] c = "8"  -> [plus |-> {"beban_admin"}, minus |-> {"bank_account"}]
      [] c = "9"  -> [plus |-> {"bank_account", "pinjaman"}, minus |-> {}]
      [] c = "10" -> [plus |-> {}, minus |-> {"pinjaman", "bank_account"}]

CashDepositThenAdminFee ==
    /\ ~demo /\ ops = {"apply"} /\ steps = 2 /\ Len(transactions) = 2
    /\ transactions[1].transaction_type = "Setoran Tunai"
    /\ transactions[1].amount = 100
    /\ transactions[2].transaction_type = "Biaya Administrasi"
    /\ transactions[2].amount = 5

\* C8: a successful apply changes exactly the two accounts of its category,
\* by the signed amounts of the category table, and no other account; from
\* zero balances, Cash deposit 100 then Admin fee 5 gives Cash 100, Bank -5,
\* Capital 100 and AdminExpense 5.
C8_CategoryEffect ==
    /\ Applied =>
         LET e == CategoryEffect(last.choice) IN
         /\ Cardinality(e.plus \cup e.minus) = 2
         /\ \A a \in Accounts :
               data[a] = pre.data[a]
                         + (IF a \in e.plus THEN last.amount ELSE 0)
                         - (IF a \in e.minus THEN last.amount ELSE 0)
    /\ CashDepositThenAdminFee =>
         data = [FinancialData EXCEPT !.kas = 100, !.bank_account = 0 - 5,
                                      !.modal = 100, !.beban_admin = 5]

C8_Witness ==
    /\ CashDepositThenAdminFee
    /\ Applied /\ last.choice = "8" /\ last.amount = 5

\* C9: every transaction in the log has a strictly positive amount.
C9_AmountsPositive ==
    \A i \in DOMAIN transactions : transactions[i].amount > 0

\* what an edit may not change in a transaction
Identity(t) ==
    <<t.id, t.transaction_type, t.date, t.account_debit, t.account_credit>>

\* C10: an edit request leaves the identifier, category, date and the two
\* account names of every transaction as they were, and changes nothing at
\* all in the transactions other than the one it names.
C10_EditKeepsIdentity ==
    last.op = "edit" =>
        /\ Len(transactions) = Len(pre.transactions)
        /\ \A i \in DOMAIN transactions :
              /\ Identity(transactions[i]) = Identity(pre.transactions[i])
              /\ pre.transactions[i].id # last.id =>
                    transactions[i] = pre.transactions[i]

C10_Witness ==
    /\ Edited
    /\ last.new_desc # "" /\ last.new_amount /\ last.new_ref # ""
    /\ Len(transactions) >= 2
    /\ "delete" \in ops
    /\ transactions # pre.transactions

\* the identifiers of a log, in list order
Ids(log) == [i \in DOMAIN log |-> log[i].id]

\* C11: an edit or delete request naming an identifier that no transaction
\* of the log has (never handed out, or deleted since) is refused as
\* NotFound and leaves the log, every balance and the counter as they were.
C11_AbsentIdentifierRejected ==
    ( /\ last.op \in {"edit", "delete"}
      /\ last.id # 0
      /\ \A i \in DOMAIN pre.transactions : pre.transactions[i].id # last.id )
    => (last.err = "NotFound" /\ Ledger = pre)

C11_Witness ==
    /\ steps = 2
    /\ last.op = "edit" /\ last.err = "NotFound"
    /\ \E k \in DOMAIN issued : issued[k] = last.id
    /\ transactions # <<>>
    /\ Ledger = pre

\* C12: the log holds the transactions applied and not deleted, in the order
\* they were applied: an apply appends at the end, a delete takes out the one
\* transaction it names and keeps the order of the others, no other request
\* reorders the log, and the identifiers increase strictly along the log.
C12_LogKeepsInsertionOrder ==
    /\ \A i, j \in DOMAIN transactions :
          i < j => transactions[i].id < transactions[j].id
    /\ \A i \in DOMAIN transactions :
          \E k \in DOMAIN issued : issued[k] = transactions[i].id
    /\ Applied =>
          /\ Len(transactions) = Len(pre.transactions) + 1
          /\ SubSeq(transactions, 1, Len(pre.transactions)) = pre.transactions
          /\ transactions[Len(transactions)].id = last.id
    /\ Deleted =>
          transactions = SelectSeq(pre.transactions, LAMBDA t : t.id # last.id)
    /\ (last.op = "delete" /\ last.err # "ok") => transactions = pre.transactions
    /\ (last.op = "apply" /\ last.err # "ok") => transactions = pre.transactions
    /\ last.op \in {"edit", "set", "report"} =>
          Ids(transactions) = Ids(pre.transactions)

C12_Witness ==
    /\ Deleted /\ last.id = 2
    /\ Len(pre.transactions) >= 3
    /\ Ids(transactions) = <<1, 3, 4, 5>>

Reported == last.op = "report" /\ workbook.saved

\* C13: the balance check of the report says "balanced" exactly when total
\* assets and total liabilities plus equity differ by less than 0.01 (for
\* whole amounts: not at all), gives the size of the difference otherwise,
\* and a report can be produced in every ledger state, balanced or not.
C13_BalanceCheck ==
    /\ Reported =>
         LET assets  == _get_total_aset(data)
             passiva == _get_total_kewajiban(data) + _get_total_ekuitas(data)
         IN  /\ workbook.neraca.seimbang = (assets = passiva)
             /\ (assets > passiva) => workbook.neraca.selisih = assets - passiva
             /\ (assets < passiva) => workbook.neraca.selisih = passiva - assets
    /\ steps < MaxSteps => ENABLED GenerateExcelReport

C13_Witness ==
    /\ Reported /\ "set" \in ops
    /\ ~workbook.neraca.seimbang
    /\ _get_total_aset(data) < _get_total_kewajiban(data) + _get_total_ekuitas(data)
    /\ workbook.neraca.selisih > 0

\* C14: in every ledger state the totals are the sums of the specification:
\* assets, liabilities, income, expense, net income = income - expense, and
\* equity = capital + retained earnings + net income.
C14_DerivedTotals ==
    /\ _get_total_aset(data) =
          data.kas + data.bank_account + data.piutang + data.investasi
          + data.aset_lain
    /\ _get_total_kewajiban(data) = data.hutang + data.pinjaman
    /\ _get_total_pendapatan(data) = data.pendapatan_bunga + data.pendapatan_lain
    /\ _get_total_beban(data) = data.beban_admin + data.beban_lain
    /\ _get_laba_rugi(data) =
          (data.pendapatan_bunga + data.pendapatan_lain)
          - (data.beban_admin + data.beban_lain)
    /\ _get_total_ekuitas(data) =
          data.modal + data.laba_ditahan
          + ((data.pendapatan_bunga + data.pendapatan_lain)
             - (data.beban_admin + data.beban_lain))

C14_Witness ==
    /\ ~demo /\ Applied
    /\ data.beban_lain # 0 /\ data.pendapatan_lain # 0
    /\ _get_laba_rugi(data) # 0
    /\ _get_total_ekuitas(data) = _get_laba_rugi(data)

\* C15: producing the report changes no balance, no logged transaction and
\* not the counter; the figures it gives are those of the ledger as it is
\* now, and producing it again without a change in between gives the same
\* figures.
C15_ReportReadsOnly ==
    last.op = "report" =>
        /\ Ledger = pre
        /\ workbook = Sheets(data)
        /\ generate_excel_report(Ledger).workbook = workbook
        /\ generate_excel_report(Ledger).data = data
        /\ generate_excel_report(Ledger).transactions = transactions
        /\ generate_excel_report(Ledger).transaction_counter = transaction_counter

C15_Witness ==
    /\ Reported /\ ~demo /\ ops = {"apply", "report"}
    /\ transactions # <<>>
    /\ workbook.laba_rugi.laba_rugi # 0
    /\ workbook.neraca.total_aset # 0

\* the accounts of the opening-balance form
FormAccounts == {InitialBalanceFields[k] : k \in DOMAIN InitialBalanceFields}

\* C16: the opening-balance request sets each account it is given a value
\* for to that value, whatever the balance was, changes no other account,
\* and leaves the log and the counter as they were, also when transactions
\* have been recorded before.
C16_OpeningBalanceOverwrites ==
    last.op = "set" =>
        /\ transactions = pre.transactions
        /\ transaction_counter = pre.transaction_counter
        /\ \A k \in DOMAIN InitialBalanceFields :
              data[InitialBalanceFields[k]] =
                  IF last.balances[k] # <<>>
                  THEN ParseAmount(last.balances[k]).value
                  ELSE pre.data[InitialBalanceFields[k]]
        /\ \A a \in Accounts \ FormAccounts : data[a] = pre.data[a]

C16_Witness ==
    /\ last.op = "set" /\ last.err = "ok"
    /\ "apply" \in ops /\ transactions # <<>>
    /\ last.balances[2] = <<"7">>
    /\ pre.data.bank_account \notin {0, 7}
    /\ data.bank_account = 7

\* C17: each of the thirteen accounts can be given an opening balance: for
\* every account some answers to the opening-balance form set it to 7.
C17_EveryAccountSettable ==
    \A a \in Accounts :
        \E answers \in [DOMAIN InitialBalanceFields -> BalanceInputs] :
            set_initial_balance(Ledger, answers).data[a] = 7

\* C18: the cash-flow figures of the report are Operating = OtherIncome -
\* OtherExpense - AdminExpense, Investing = InterestIncome - Investments,
\* Financing = Capital + LoansPayable - Payables, and their sum, taken from
\* the balances as they are.
C18_CashFlow ==
    Reported =>
        LET operasi   == data.pendapatan_lain - data.beban_lain - data.beban_admin
            investasi == data.pendapatan_bunga - data.investasi
            pendanaan == data.modal + data.pinjaman - data.hutang
        IN  /\ workbook.arus_kas.kas_operasi = operasi
            /\ workbook.arus_kas.kas_investasi = investasi
            /\ workbook.arus_kas.kas_pendanaan = pendanaan
            /\ workbook.arus_kas.total_arus_kas = operasi + investasi + pendanaan

C18_Witness ==
    /\ Reported
    /\ data.hutang # 0
    /\ workbook.arus_kas.kas_pendanaan # 0
    /\ workbook.arus_kas.total_arus_kas # 0

\* the selector of a logged transaction's category
SelectorOf(t) ==
    CHOOSE c \in DOMAIN transaction_map : transaction_map[c][1] = t.transaction_type

\* the balances that the transactions of a log give, by the category table
RECURSIVE Replay(_)
Replay(log) ==
    IF log = <<>> THEN FinancialData
    ELSE LET t    == log[Len(log)]
             e    == CategoryEffect(SelectorOf(t))
             rest == Replay(SubSeq(log, 1, Len(log) - 1))
         IN  [ a \in Accounts |->
                 rest[a] + (IF a \in e.plus THEN t.amount ELSE 0)
                         - (IF a \in e.minus THEN t.amount ELSE 0) ]

\* C19: from a fresh ledger whose balances were never overwritten, every
\* balance is the sum of the category effects of the transactions now in the
\* log, at their current amounts.
C19_BalancesFollowLog ==
    (~demo /\ "set" \notin ops) => data = Replay(transactions)

\* C20: an edit refused because the new amount is not a number leaves the
\* transaction as it was, its description included.
C20_RefusedEditChangesNothing ==
    (last.op = "edit" /\ last.err = "InvalidInput" /\ last.text = "invalid")
    => transactions = pre.transactions

\* C21: an opening-balance request refused because an answer is not a number
\* leaves every balance as it was, the accounts answered before the invalid
\* answer included.
C21_RefusedOpeningBalanceChangesNothing ==
    (last.op = "set" /\ last.err = "InvalidInput") => data = pre.data

\* the total amount of the bill payments of a log
RECURSIVE BillPayments(_)
BillPayments(log) ==
    IF log = <<>> THEN 0
    ELSE BillPayments(SubSeq(log, 1, Len(log) - 1))
         + (IF log[Len(log)].transaction_type = "Pembayaran Tagihan"
            THEN log[Len(log)].amount ELSE 0)

\* C22: from a fresh ledger, after apply requests only (reports in between
\* change nothing), the net cash change of the cash-flow statement equals
\* Cash + Bank plus twice the total of the bill payments applied; without a
\* bill payment it equals Cash + Bank.
C22_NetCashChange ==
    (~demo /\ ops \subseteq {"apply", "report"}) =>
        LET net == _create_arus_kas_sheet(data).total_arus_kas
            P   == BillPayments(transactions)
        IN  /\ net = data.kas + data.bank_account + 2 * P
            /\ P = 0 => net = data.kas + data.bank_account
            /\ Reported => workbook.arus_kas.total_arus_kas = net

C22_Witness ==
    /\ ~demo /\ ops = {"apply", "report"} /\ Reported
    /\ BillPayments(transactions) = 100
    /\ data.bank_account = 0 - 100 /\ data.kas = 0
    /\ workbook.arus_kas.total_arus_kas = 100

====
